---- MODULE Spec2Model ----
(***************************************************************************)
(* Baseline web-features checker: a browser extension made of a Page       *)
(* Scanner (content script, class BaselineFeatureDetector), a Coordinator  *)
(* (background service worker) and a Lookup Panel (popup, class            *)
(* BaselinePopup).  Each component is a single-threaded event loop: one    *)
(* action of this module is one handler run to completion.                 *)
(***************************************************************************)
EXTENDS Integers, Sequences, FiniteSets, TLC

VARIABLES
  detectedFeatures,  \* Scanner: this.detectedFeatures, in insertion order
  calls,             \* history: the addFeature calls made so far
  now,               \* wall clock, in ms
  session,           \* chrome.storage.session: key -> value, present keys only
  tabOpen,           \* Coordinator's world: which tabs exist
  reports,           \* per tab, FEATURES_DETECTED messages sent and not yet handled
  removals,          \* tabs whose onRemoved event is not yet handled
  coordOps,          \* storage calls the Coordinator issued, not yet applied (in order)
  badgeText,         \* per tab, the text last given to setBadgeText
  badgeColor,        \* per tab, the colour last given to setBadgeBackgroundColor
  lastReport,        \* history: per tab, the features of the last report handled
  reportsSent,       \* history: number of reports sent
  elements,          \* the page: document.querySelectorAll('*'), in document order
  hlLog,             \* history: the featureIds of the HIGHLIGHT_FEATURE requests handled
  hlMatched,         \* history: the elements matching the rule at the last request
  restyles,          \* history: number of style changes the page made
  env,               \* the globals the content script's world provides
  scanner,           \* "absent" (not constructed), "attached", "detached" (after cleanup)
  timers,            \* the Scanner's pending setTimeout timers: {[id, due]}
  reanalyzeTimeout,  \* Scanner: this.reanalyzeTimeout (0 for null)
  timerSeq,          \* the last timer id setTimeout returned
  passes,            \* history: number of analyzeDocument runs started
  sentCount,         \* history: number of FEATURES_DETECTED messages sent
  lastSent,          \* history: <<features>> of the last message sent
  lastResponse,      \* history: the last GET_DETECTED_FEATURES response, and the pass count then
  docChanged,        \* history: the document changed since the last analyzeDocument run
  lastQualifying,    \* history: time of the last insertion that asked for re-analysis
  burstRuns,         \* history: timer-driven runs since the current burst began
  lastRunAt,         \* history: time of the last timer-driven run
  inserts,           \* history: number of nodes the page inserted
  forced,            \* history: number of REANALYZE_PAGE requests handled
  panel,             \* Lookup Panel: "closed" or "open"
  searchInput,       \* searchInput.value, a text (sequence of tokens)
  loadingState,      \* loadingState.style.display
  results,           \* results: [display, kind, cards, total, query]
  noResults,         \* noResults.style.display
  detected,          \* detectedFeatures section: [display, count, names, more]
  requests,          \* the searchFeatures calls awaiting fetch() or response.json()
  reqSeq,            \* number of searchFeatures calls of this panel
  popupOps,          \* storage calls the panel issued, not yet applied (in order)
  getResult,         \* <<result>> of storage.get, on its way to the panel
  loadPc,            \* loadDetectedFeatures: "idle", "query", "message", "done"
  issued,            \* history: what this panel has issued, in order
  pendingAtOpen,     \* history: <<value>> of pendingSearch when the panel opened
  pendingSearches,   \* history: pending searches run since the last write of the key
  opens,             \* history: number of times the panel was opened
  userSearches,      \* history: number of searches the user started
  clicks,            \* history: number of context-menu clicks
  handled            \* history: the request whose response was handled last, and whether it failed

docVars == <<elements, restyles>>
hlVars == <<hlLog, hlMatched>>
runVars == <<env, scanner, timers, reanalyzeTimeout, timerSeq, passes, sentCount,
             lastSent, lastResponse, docChanged, lastQualifying, burstRuns, lastRunAt,
             inserts, forced>>
scannerVars == <<detectedFeatures, calls, docVars, hlVars, runVars>>
viewVars == <<loadingState, results, noResults>>
popupRest == <<panel, searchInput, viewVars, handled, detected, requests, reqSeq, popupOps,
               getResult, loadPc, issued, pendingAtOpen, opens, userSearches, clicks>>
popupVars == <<popupRest, pendingSearches>>
coordVars == <<tabOpen, reports, removals, coordOps, badgeText, badgeColor,
               lastReport, reportsSent>>
vars == <<scannerVars, coordVars, popupVars, now, session>>

Min(a, b) == IF a < b THEN a ELSE b

Range(s) == {s[i] : i \in DOMAIN s}

\* The tabs of the browser session.
Tabs == {1, 2}

\* The views of a panel that is not open.
Hidden == [display |-> "none", kind |-> "none", cards |-> 0, footer |-> "", request |-> 0]
NoDetected == [display |-> "none", count |-> 0, names |-> <<>>, more |-> 0]

\* No Lookup Panel open, and none opened so far.
PanelClosed ==
  /\ panel = "closed"
  /\ searchInput = <<>>
  /\ loadingState = "none"
  /\ results = Hidden
  /\ noResults = "none"
  /\ detected = NoDetected
  /\ requests = {}
  /\ reqSeq = 0
  /\ popupOps = <<>>
  /\ getResult = <<>>
  /\ loadPc = "idle"
  /\ issued = <<>>
  /\ pendingAtOpen = <<>>
  /\ pendingSearches = 0
  /\ opens = 0
  /\ userSearches = 0
  /\ clicks = 0
  /\ handled = <<>>

\* The Coordinator with nothing reported, nothing closed and no call pending.
CoordIdle ==
  /\ tabOpen = [t \in Tabs |-> TRUE]
  /\ reports = [t \in Tabs |-> <<>>]
  /\ removals = {}
  /\ coordOps = <<>>
  /\ badgeText = [t \in Tabs |-> ""]
  /\ badgeColor = [t \in Tabs |-> "default"]
  /\ lastReport = [t \in Tabs |-> <<>>]
  /\ reportsSent = 0
  /\ PanelClosed

(***************************************************************************)
(* Page Scanner: the detected set.                                         *)
(***************************************************************************)

\* Array.prototype.find: the index of the first entry with this id, 0 if none.
FindFeature(df, id) ==
  IF \E i \in DOMAIN df : df[i].id = id
  THEN CHOOSE i \in DOMAIN df :
         /\ df[i].id = id
         /\ \A j \in DOMAIN df : df[j].id = id => i <= j
  ELSE 0

\* A broken addFeature that adds a fresh object on every call.
addFeatureAlwaysAdds(df, id, name, type, evidence) ==
  Append(df, [id |-> id, name |-> name, type |-> type, evidence |-> evidence])

\* addFeature(id, name, type, evidence): the detected set after the call.
addFeature(df, id, name, type, evidence) ==
  LET existing == FindFeature(df, id)
  IN IF existing # 0
     THEN [df EXCEPT ![existing].evidence = evidence]
     ELSE Append(df, [id |-> id, name |-> name, type |-> type, evidence |-> evidence])

(***************************************************************************)
(* The texts the pages of this model contain: serialised style rules and   *)
(* declarations (rule.cssText, el.style.cssText) and inline script texts.  *)
(***************************************************************************)
GridDecl == "display: grid;"
FlexDecl == "display: flex;"
SubgridDecl == "grid-template-columns: subgrid;"
TransformDecl == "transform: rotate(90deg);"
CustomPropDecl == "--gap: 4px;"
VarUseDecl == "margin: var(--gap);"
FilterDecl == "filter: blur(2px);"
HighlightRule == ".baseline-highlight { outline: 2px solid rgb(255, 107, 0) !important; outline-offset: 2px !important; position: relative !important; }"
HighlightAfterRule == ".baseline-highlight::after { content: \"Baseline: \" attr(data-baseline-feature); position: absolute; top: -25px; left: 0px; background: rgb(255, 107, 0); color: white; padding: 2px 6px; font-size: 12px; border-radius: 3px; z-index: 10000; pointer-events: none; }"
FetchCall == "fetch('/api')"
OptionalChain == "a?.b ?? c"
PromiseTryCall == "Promise.try(f)"
DynamicImport == "import('./m.js')"
ArrowFn == "x => x + 1"

\* The globals of a content script's isolated world in Chrome: every web API
\* the Scanner probes exists, and customElements is null.
EnvIsolated ==
  {"Promise.allSettled", "Promise.any", "Promise.try", "fetch", "IntersectionObserver",
   "ResizeObserver", "Worker", "navigator.serviceWorker", "PaymentRequest",
   "navigator.share", "navigator.clipboard", "navigator.geolocation"}
\* A world whose customElements is a CustomElementRegistry (which has no
\* getNames method) and whose Promise has no try method.
EnvRegistry == (EnvIsolated \ {"Promise.try"}) \cup {"customElements"}
Environments == {EnvIsolated, EnvRegistry}

\* No Scanner constructed yet.
ScannerAbsent ==
  /\ env = EnvIsolated
  /\ scanner = "absent"
  /\ timers = {}
  /\ reanalyzeTimeout = 0
  /\ timerSeq = 0
  /\ passes = 0
  /\ sentCount = 0
  /\ lastSent = <<>>
  /\ lastResponse = <<>>
  /\ docChanged = FALSE
  /\ lastQualifying = -1
  /\ burstRuns = 0
  /\ lastRunAt = -1
  /\ inserts = 0
  /\ forced = 0

(***************************************************************************)
(* The page the Scanner is attached to.  An element carries its resolved   *)
(* style (getComputedStyle), its inline style declarations, its text (for  *)
(* <style> and <script>), one distinguishing attribute, and the highlight  *)
(* marker: class baseline-highlight (hl) and data-baseline-feature (label, *)
(* "" when the attribute is absent).                                       *)
(***************************************************************************)
Elem(eid, tag, display, transform, filter, inline, text, attr) ==
  [eid |-> eid, tag |-> tag, display |-> display, transform |-> transform,
   filter |-> filter, inline |-> inline, text |-> text, attr |-> attr,
   hl |-> FALSE, label |-> ""]

Rotated == "matrix(0, 1, -1, 0, 0, 0)"
Blurred == "blur(2px)"

Html == Elem(1, "html", "block", "none", "none", {}, {}, "")
HeadEl == Elem(2, "head", "none", "none", "none", {}, {}, "")
BodyEl == Elem(3, "body", "block", "none", "none", {}, {}, "")

\* The resolved styles an element of the page may have: display, transform, filter.
Looks ==
  { <<"block", "none", "none">>, <<"grid", "none", "none">>,
    <<"inline-flex", "none", "none">>, <<"inline-grid", Rotated, "none">>,
    <<"block", "none", Blurred>> }

PageBlank ==
  /\ elements = <<Html, HeadEl, BodyEl>>
  /\ restyles = 0
  /\ hlLog = <<>>
  /\ hlMatched = {}
  /\ ScannerAbsent

IndexOfBody(els) == CHOOSE i \in DOMAIN els : els[i].tag = "body"

\* head.appendChild(e): e becomes the last element before <body>.
AppendToHead(els, e) ==
  LET b == IndexOfBody(els)
  IN SubSeq(els, 1, b - 1) \o <<e>> \o SubSeq(els, b, Len(els))

(***************************************************************************)
(* Page Scanner: visual highlighting.                                      *)
(***************************************************************************)
HighlightStyleId == "baseline-highlight-styles"

\* A broken clearing step that leaves the earlier markers in place.
ClearHighlightsKeepsAll(els) == els

\* querySelectorAll('.baseline-highlight').forEach(remove class and attribute)
ClearHighlights(els) ==
  [i \in DOMAIN els |->
     IF els[i].hl THEN [els[i] EXCEPT !.hl = FALSE, !.label = ""] ELSE els[i]]

\* if (!document.getElementById('baseline-highlight-styles')) head.appendChild(style)
InjectHighlightStyles(els) ==
  IF \E i \in DOMAIN els : els[i].attr = HighlightStyleId
  THEN els
  ELSE AppendToHead(els,
         Elem(Len(els) + 1, "style", "none", "none", "none", {},
              {HighlightRule, HighlightAfterRule}, HighlightStyleId))

Mark(e, label) == [e EXCEPT !.hl = TRUE, !.label = label]

\* A broken switch that misses inline-grid and inline-flex.
highlightSpecificFeatureBlockOnly(els, featureId) ==
  CASE featureId = "css-grid" ->
         [i \in DOMAIN els |->
            IF els[i].display = "grid" THEN Mark(els[i], "CSS Grid") ELSE els[i]]
    [] featureId = "flexbox" ->
         [i \in DOMAIN els |->
            IF els[i].display = "flex" THEN Mark(els[i], "Flexbox") ELSE els[i]]
    [] featureId = "css-transforms" ->
         [i \in DOMAIN els |->
            IF els[i].transform # "" /\ els[i].transform # "none"
            THEN Mark(els[i], "CSS Transform") ELSE els[i]]
    [] OTHER -> els

\* highlightSpecificFeature(featureId)
highlightSpecificFeature(els, featureId) ==
  CASE featureId = "css-grid" ->
         [i \in DOMAIN els |->
            IF els[i].display = "grid" \/ els[i].display = "inline-grid"
            THEN Mark(els[i], "CSS Grid") ELSE els[i]]
    [] featureId = "flexbox" ->
         [i \in DOMAIN els |->
            IF els[i].display = "flex" \/ els[i].display = "inline-flex"
            THEN Mark(els[i], "Flexbox") ELSE els[i]]
    [] featureId = "css-transforms" ->
         [i \in DOMAIN els |->
            IF els[i].transform # "" /\ els[i].transform # "none"
            THEN Mark(els[i], "CSS Transform") ELSE els[i]]
    [] OTHER -> els

\* highlightFeatureUsage(featureId)
highlightFeatureUsage(els, featureId) ==
  highlightSpecificFeature(InjectHighlightStyles(ClearHighlights(els)), featureId)

MaxElems == 1
MaxRequests == 2
MaxRestyles == 1

\* The ids a HIGHLIGHT_FEATURE request may carry: the three supported ones,
\* a detected feature without a highlight rule, and an unknown id.
RequestIds == {"css-grid", "flexbox", "css-transforms", "css-filters", "no-such-feature"}
SupportedIds == {"css-grid", "flexbox", "css-transforms"}

\* What the rule of a supported id selects, and the label it attaches.
RuleMatches(featureId, e) ==
  \/ featureId = "css-grid" /\ e.display \in {"grid", "inline-grid"}
  \/ featureId = "flexbox" /\ e.display \in {"flex", "inline-flex"}
  \/ featureId = "css-transforms" /\ e.transform \notin {"", "none"}
DisplayName(featureId) ==
  CASE featureId = "css-grid" -> "CSS Grid"
    [] featureId = "flexbox" -> "Flexbox"
    [] featureId = "css-transforms" -> "CSS Transform"

WithLook(e, look) ==
  [e EXCEPT !.display = look[1], !.transform = look[2], !.filter = look[3]]

InitHighlight ==
  /\ detectedFeatures = <<>>
  /\ calls = <<>>
  /\ now = 0
  /\ session = <<>>
  /\ CoordIdle
  /\ restyles = 0
  /\ hlLog = <<>>
  /\ hlMatched = {}
  /\ ScannerAbsent
  /\ \E n \in 0..MaxElems, bodyLook \in Looks :
       \E looks \in [1..n -> Looks] :
         elements = <<Html, HeadEl, WithLook(BodyEl, bodyLook)>> \o
                    [i \in 1..n |-> WithLook(Elem(3 + i, "div", "block", "none", "none",
                                                  {}, {}, ""), looks[i])]

\* handleMessage, case 'HIGHLIGHT_FEATURE'.
OnHighlightFeature ==
  /\ Len(hlLog) < MaxRequests
  /\ \E featureId \in RequestIds :
       /\ elements' = highlightFeatureUsage(elements, featureId)
       /\ hlLog' = Append(hlLog, featureId)
       /\ hlMatched' = {elements[i].eid : i \in {j \in DOMAIN elements :
                                                   RuleMatches(featureId, elements[j])}}
  /\ UNCHANGED <<detectedFeatures, calls, restyles, runVars, coordVars, popupVars, now, session>>

\* The page changes the resolved style of one of its elements (a class
\* toggle, a media query): no node is inserted.
PageRestyle ==
  /\ restyles < MaxRestyles
  /\ \E i \in DOMAIN elements, look \in Looks :
       /\ elements[i].tag \in {"div", "body"}
       /\ elements' = [elements EXCEPT ![i] = WithLook(@, look)]
  /\ restyles' = restyles + 1
  /\ UNCHANGED <<detectedFeatures, calls, hlVars, runVars, coordVars, popupVars, now, session>>

NextHighlight ==
  \/ OnHighlightFeature
  \/ PageRestyle

SpecHighlight == InitHighlight /\ [][NextHighlight]_vars

LastId == hlLog[Len(hlLog)]
Requested == Len(hlLog') = Len(hlLog) + 1
Before(eid) == elements[CHOOSE i \in DOMAIN elements : elements[i].eid = eid]
After(eid) == elements'[CHOOSE i \in DOMAIN elements' : elements'[i].eid = eid]
Eids == {elements[i].eid : i \in DOMAIN elements}
Marked == {elements[i].eid : i \in {j \in DOMAIN elements : elements[j].hl}}

\* C4 as stated: a request with an unsupported id leaves the marker class and
\* the data-baseline-feature attribute of every element as they were.
C4_UnsupportedChangesNothing ==
  [][(Requested /\ hlLog'[Len(hlLog')] \notin SupportedIds) =>
       \A eid \in Eids :
         After(eid).hl = Before(eid).hl /\ After(eid).label = Before(eid).label]_vars

\* C4 amended: a request with an unsupported id marks nothing and removes the
\* markers of the earlier request: afterwards no element carries the marker
\* class, an element that carried it has lost the attribute too, and an
\* element that did not carry it is unchanged.
C4_UnsupportedOnlyClears ==
  [][(Requested /\ hlLog'[Len(hlLog')] \notin SupportedIds) =>
       \A eid \in Eids :
         /\ ~After(eid).hl
         /\ After(eid).label = IF Before(eid).hl THEN "" ELSE Before(eid).label
         /\ [After(eid) EXCEPT !.hl = FALSE, !.label = ""]
              = [Before(eid) EXCEPT !.hl = FALSE, !.label = ""]]_vars

\* An unsupported request handled right after a css-grid request that had
\* marked an element.
C4_Witness ==
  /\ Len(hlLog) = 2
  /\ hlLog[1] = "css-grid" /\ hlLog[2] = "css-filters"
  /\ restyles = 0
  /\ \E i \in DOMAIN elements : elements[i].display = "grid"
  /\ Marked = {}

\* C5: after requests ending with one for a supported id f, the elements
\* carrying the marker are exactly those that matched f's rule when that
\* request ran, each labelled with f's display name.
C5_ExactlyLastMatches ==
  (hlLog # <<>> /\ LastId \in SupportedIds) =>
    /\ Marked = hlMatched
    /\ \A i \in DOMAIN elements :
         elements[i].hl => elements[i].label = DisplayName(LastId)

\* A flexbox request after a css-grid request, on a page with a grid element
\* and an inline-flex element: only the latter is marked.
C5_Witness ==
  /\ Len(hlLog) = 2
  /\ hlLog[1] = "css-grid" /\ hlLog[2] = "flexbox"
  /\ restyles = 0
  /\ \E i, j \in DOMAIN elements :
       /\ elements[i].display = "grid" /\ ~elements[i].hl
       /\ elements[j].display = "inline-flex" /\ elements[j].hl
       /\ elements[j].label = "Flexbox"

(***************************************************************************)
(* Text helpers.                                                           *)
(***************************************************************************)
Digit(d) ==
  CASE d = 0 -> "0" [] d = 1 -> "1" [] d = 2 -> "2" [] d = 3 -> "3" [] d = 4 -> "4"
    [] d = 5 -> "5" [] d = 6 -> "6" [] d = 7 -> "7" [] d = 8 -> "8" [] d = 9 -> "9"

\* Number.prototype.toString() of a non-negative integer.
RECURSIVE Decimal(_)
Decimal(n) == IF n < 10 THEN Digit(n) ELSE Decimal(n \div 10) \o Digit(n % 10)

(***************************************************************************)
(* Shared ephemeral storage (chrome.storage.session).                      *)
(***************************************************************************)
StorageSet(s, key, value) == [k \in DOMAIN s \cup {key} |-> IF k = key THEN value ELSE s[k]]
StorageRemove(s, key) == [k \in DOMAIN s \ {key} |-> s[k]]
ApplyOp(s, op) ==
  IF op.op = "set" THEN StorageSet(s, op.key, op.value) ELSE StorageRemove(s, op.key)

FeaturesKey(tabId) == "features_" \o Decimal(tabId)

(***************************************************************************)
(* Coordinator (background service worker).                                *)
(***************************************************************************)
BadgeCap == 99
Red == "#dc3545"
Green == "#28a745"

\* f.baseline?.status === 'limited'
IsLimited(f) == "baseline" \in DOMAIN f /\ f.baseline.status = "limited"

\* A broken updateBadge colour choice: green whenever the list is non-empty.
BadgeOfNoLimitedBranch(badge, features) ==
  IF Len(features) = 0
  THEN [badge EXCEPT !.text = ""]
  ELSE [text |-> Decimal(Min(Len(features), BadgeCap)), color |-> Green]

\* updateBadge(tabId, features) for a truthy tabId: the badge {text, color}
\* after the call, from the badge before it.
BadgeOf(badge, features) ==
  IF Len(features) = 0
  THEN [badge EXCEPT !.text = ""]
  ELSE LET limitedFeatures == SelectSeq(features, IsLimited)
       IN IF Len(limitedFeatures) > 0
          THEN [text |-> Decimal(Len(limitedFeatures)), color |-> Red]
          ELSE [text |-> Decimal(Min(Len(features), BadgeCap)), color |-> Green]

\* The feature lists a report may carry: n entries, the last k of them with
\* baseline.status 'limited', the others alternately without a baseline
\* field (as the Scanner builds them) and 'widely'.
ReportSizes == {0, 2, 150}
LimitedCounts == {0, 2}
MakeFeature(i, n, k) ==
  IF i > n - k THEN [id |-> i, baseline |-> [status |-> "limited"]]
  ELSE IF i % 2 = 0 THEN [id |-> i, baseline |-> [status |-> "widely"]]
  ELSE [id |-> i]
MakeList(n, k) == [i \in 1..n |-> MakeFeature(i, n, k)]
ReportLists == {MakeList(n, k) : n \in ReportSizes, k \in LimitedCounts}

MaxReports == 2

InitCoordinator ==
  /\ detectedFeatures = <<>>
  /\ calls = <<>>
  /\ now = 0
  /\ session = <<>>
  /\ CoordIdle
  /\ PageBlank

\* A Scanner of an open tab sends FEATURES_DETECTED (content script,
\* sendResultsToBackground); the message is in flight until handled.
ReportSent ==
  /\ reportsSent < MaxReports
  /\ \E t \in Tabs, fl \in ReportLists :
       /\ tabOpen[t]
       /\ reports' = [reports EXCEPT ![t] = Append(@, [features |-> fl,
                                                       url |-> "https://page",
                                                       title |-> "Page"])]
  /\ reportsSent' = reportsSent + 1
  /\ UNCHANGED <<tabOpen, removals, coordOps, badgeText, badgeColor, lastReport,
                 scannerVars, popupVars, now, session>>

\* runtime.onMessage listener, message.type === 'FEATURES_DETECTED'.
OnFeaturesDetected ==
  \E t \in Tabs :
    /\ reports[t] # <<>>
    /\ LET message == Head(reports[t])
           badge == BadgeOf([text |-> badgeText[t], color |-> badgeColor[t]],
                            message.features)
       IN /\ badgeText' = [badgeText EXCEPT ![t] = badge.text]
          /\ badgeColor' = [badgeColor EXCEPT ![t] = badge.color]
          /\ coordOps' = Append(coordOps,
               [op |-> "set", key |-> FeaturesKey(t),
                value |-> [features |-> message.features, url |-> message.url,
                           title |-> message.title, timestamp |-> now]])
          /\ lastReport' = [lastReport EXCEPT ![t] = <<message.features>>]
    /\ reports' = [reports EXCEPT ![t] = Tail(@)]
    /\ UNCHANGED <<tabOpen, removals, reportsSent, scannerVars, popupVars, now, session>>

\* The user closes a tab: the browser queues tabs.onRemoved for the Coordinator.
TabClosed ==
  \E t \in Tabs :
    /\ tabOpen[t]
    /\ tabOpen' = [tabOpen EXCEPT ![t] = FALSE]
    /\ removals' = removals \cup {t}
    /\ UNCHANGED <<reports, coordOps, badgeText, badgeColor, lastReport, reportsSent,
                   scannerVars, popupVars, now, session>>

\* tabs.onRemoved listener.
OnTabRemoved ==
  \E t \in removals :
    /\ removals' = removals \ {t}
    /\ coordOps' = Append(coordOps, [op |-> "remove", key |-> FeaturesKey(t)])
    /\ UNCHANGED <<tabOpen, reports, badgeText, badgeColor, lastReport, reportsSent,
                   scannerVars, popupVars, now, session>>

\* The storage service applies the Coordinator's next call.
CoordStorageApply ==
  /\ coordOps # <<>>
  /\ session' = ApplyOp(session, Head(coordOps))
  /\ coordOps' = Tail(coordOps)
  /\ pendingSearches' = IF Head(coordOps).key = "pendingSearch" THEN 0 ELSE pendingSearches
  /\ UNCHANGED <<tabOpen, reports, removals, badgeText, badgeColor, lastReport,
                 reportsSent, scannerVars, popupRest, now>>

NextCoordinator ==
  \/ ReportSent
  \/ OnFeaturesDetected
  \/ TabClosed
  \/ OnTabRemoved
  \/ CoordStorageApply

SpecCoordinator == InitCoordinator /\ [][NextCoordinator]_vars

Reported(t) == lastReport[t] # <<>>
LastFeatures(t) == lastReport[t][1]
LimitedCount(fl) == Cardinality({i \in DOMAIN fl : IsLimited(fl[i])})

\* C2: after a report for a tab is handled, the badge of the tab is: text
\* cleared for an empty list; else, with at least one 'limited' feature, the
\* decimal count of limited features on red; else min(total, 99) on green.
C2_BadgeRule ==
  \A t \in Tabs :
    Reported(t) =>
      LET fl == LastFeatures(t)
      IN IF Len(fl) = 0 THEN badgeText[t] = ""
         ELSE IF LimitedCount(fl) > 0
              THEN /\ badgeText[t] = ToString(LimitedCount(fl))
                   /\ badgeColor[t] = Red
              ELSE /\ badgeText[t] = ToString(IF Len(fl) > 99 THEN 99 ELSE Len(fl))
                   /\ badgeColor[t] = Green

\* 150 features, none limited, after a report with limited ones: "99" on green.
C2_Witness ==
  \E t \in Tabs :
    /\ Reported(t)
    /\ Len(LastFeatures(t)) = 150
    /\ LimitedCount(LastFeatures(t)) = 0
    /\ badgeText[t] = "99"
    /\ badgeColor[t] = Green

Quiescent(t) == reports[t] = <<>> /\ t \notin removals /\ coordOps = <<>>

\* C10: once a tab is closed and every outstanding handler and storage call
\* has completed, storage holds no features_<tabId> entry of the tab.
C10_NoEntryAfterClose ==
  \A t \in Tabs :
    (~tabOpen[t] /\ Quiescent(t)) => FeaturesKey(t) \notin DOMAIN session

(***************************************************************************)
(* Page Scanner: detection.                                                *)
(***************************************************************************)
\* analyzeStyleSheets: its tests in order; matches holds the texts above that the
\* regular expression of the test matches, needs the global the test
\* requires ("" when none).
analyzeStyleSheetsChecks ==
  << [id |-> "css-grid", name |-> "CSS Grid Layout", type |-> "css",
       evidence |-> "Found in stylesheets", needs |-> "",
       matches |-> {GridDecl, SubgridDecl}],
     [id |-> "flexbox", name |-> "CSS Flexible Box Layout", type |-> "css",
       evidence |-> "Found in stylesheets", needs |-> "",
       matches |-> {FlexDecl}],
     [id |-> "css-container-queries", name |-> "CSS Container Queries", type |-> "css",
       evidence |-> "Found in stylesheets", needs |-> "",
       matches |-> {}],
     [id |-> "css-subgrid", name |-> "CSS Subgrid", type |-> "css",
       evidence |-> "Found in stylesheets", needs |-> "",
       matches |-> {SubgridDecl}],
     [id |-> "css-cascade-layers", name |-> "CSS Cascade Layers", type |-> "css",
       evidence |-> "Found in stylesheets", needs |-> "",
       matches |-> {}],
     [id |-> "css-aspect-ratio", name |-> "CSS aspect-ratio", type |-> "css",
       evidence |-> "Found in stylesheets", needs |-> "",
       matches |-> {}],
     [id |-> "flexbox-gap", name |-> "CSS Gap", type |-> "css",
       evidence |-> "Found gap property", needs |-> "",
       matches |-> {CustomPropDecl}],
     [id |-> "css-transforms", name |-> "CSS Transforms", type |-> "css",
       evidence |-> "Found in stylesheets", needs |-> "",
       matches |-> {TransformDecl}],
     [id |-> "css-animations", name |-> "CSS Animations", type |-> "css",
       evidence |-> "Found animations", needs |-> "",
       matches |-> {}],
     [id |-> "css-transitions", name |-> "CSS Transitions", type |-> "css",
       evidence |-> "Found transitions", needs |-> "",
       matches |-> {}],
     [id |-> "css-backdrop-filter", name |-> "CSS backdrop-filter", type |-> "css",
       evidence |-> "Found in stylesheets", needs |-> "",
       matches |-> {}],
     [id |-> "css-masks", name |-> "CSS Masks", type |-> "css",
       evidence |-> "Found in stylesheets", needs |-> "",
       matches |-> {}],
     [id |-> "css-math-functions", name |-> "CSS Math Functions", type |-> "css",
       evidence |-> "Found clamp() function", needs |-> "",
       matches |-> {}],
     [id |-> "css-logical-props", name |-> "CSS Logical Properties", type |-> "css",
       evidence |-> "Found logical properties", needs |-> "",
       matches |-> {}] >>

\* detectCSSCustomProperties: its tests in order; matches holds the texts above that the
\* regular expression of the test matches, needs the global the test
\* requires ("" when none).
detectCSSCustomPropertiesChecks ==
  << [id |-> "css-custom-properties", name |-> "CSS Custom Properties", type |-> "css",
       evidence |-> "Found custom property definitions", needs |-> "",
       matches |-> {CustomPropDecl}],
     [id |-> "css-custom-properties", name |-> "CSS Custom Properties", type |-> "css",
       evidence |-> "Found var() usage", needs |-> "",
       matches |-> {VarUseDecl}] >>

\* detectModernCSSFeatures: its tests in order; matches holds the texts above that the
\* regular expression of the test matches, needs the global the test
\* requires ("" when none).
detectModernCSSFeaturesChecks ==
  << [id |-> "css-has", name |-> "CSS :has() selector", type |-> "css",
       evidence |-> "Found :has() selector", needs |-> "",
       matches |-> {}],
     [id |-> "css-is", name |-> "CSS :is() selector", type |-> "css",
       evidence |-> "Found :is() selector", needs |-> "",
       matches |-> {}],
     [id |-> "css-where", name |-> "CSS :where() selector", type |-> "css",
       evidence |-> "Found :where() selector", needs |-> "",
       matches |-> {}],
     [id |-> "css-nesting", name |-> "CSS Nesting", type |-> "css",
       evidence |-> "Found nesting syntax", needs |-> "",
       matches |-> {}] >>

\* detectPromiseFeatures: its tests in order; matches holds the texts above that the
\* regular expression of the test matches, needs the global the test
\* requires ("" when none).
detectPromiseFeaturesChecks ==
  << [id |-> "promise-allsettled", name |-> "Promise.allSettled()", type |-> "javascript",
       evidence |-> "Found in scripts", needs |-> "Promise.allSettled",
       matches |-> {}],
     [id |-> "promise-any", name |-> "Promise.any()", type |-> "javascript",
       evidence |-> "Found in scripts", needs |-> "Promise.any",
       matches |-> {}],
     [id |-> "promise-try", name |-> "Promise.try()", type |-> "javascript",
       evidence |-> "Found in scripts", needs |-> "Promise.try",
       matches |-> {PromiseTryCall}] >>

\* detectModernSyntax: its tests in order; matches holds the texts above that the
\* regular expression of the test matches, needs the global the test
\* requires ("" when none).
detectModernSyntaxChecks ==
  << [id |-> "optional-chaining", name |-> "Optional Chaining", type |-> "javascript",
       evidence |-> "Found ?. syntax", needs |-> "",
       matches |-> {OptionalChain}],
     [id |-> "nullish-coalescing", name |-> "Nullish Coalescing", type |-> "javascript",
       evidence |-> "Found ?? syntax", needs |-> "",
       matches |-> {OptionalChain}],
     [id |-> "async-await", name |-> "Async/Await", type |-> "javascript",
       evidence |-> "Found async/await syntax", needs |-> "",
       matches |-> {}],
     [id |-> "arrow-functions", name |-> "Arrow Functions", type |-> "javascript",
       evidence |-> "Found => syntax", needs |-> "",
       matches |-> {ArrowFn}],
     [id |-> "template-literals", name |-> "Template Literals", type |-> "javascript",
       evidence |-> "Found backtick syntax", needs |-> "",
       matches |-> {}],
     [id |-> "destructuring", name |-> "Destructuring Assignment", type |-> "javascript",
       evidence |-> "Found destructuring syntax", needs |-> "",
       matches |-> {}],
     [id |-> "spread-operator", name |-> "Spread Operator", type |-> "javascript",
       evidence |-> "Found ... syntax", needs |-> "",
       matches |-> {}] >>

\* detectWebAPIs: its tests in order; matches holds the texts above that the
\* regular expression of the test matches, needs the global the test
\* requires ("" when none).
detectWebAPIsChecks ==
  << [id |-> "fetch", name |-> "Fetch API", type |-> "web-api",
       evidence |-> "Found fetch() usage", needs |-> "fetch",
       matches |-> {FetchCall}],
     [id |-> "intersection-observer", name |-> "Intersection Observer", type |-> "web-api",
       evidence |-> "Found usage", needs |-> "IntersectionObserver",
       matches |-> {}],
     [id |-> "resize-observer", name |-> "Resize Observer", type |-> "web-api",
       evidence |-> "Found usage", needs |-> "ResizeObserver",
       matches |-> {}],
     [id |-> "web-workers", name |-> "Web Workers", type |-> "web-api",
       evidence |-> "Found Worker usage", needs |-> "Worker",
       matches |-> {}],
     [id |-> "service-workers", name |-> "Service Workers", type |-> "web-api",
       evidence |-> "Found serviceWorker usage", needs |-> "navigator.serviceWorker",
       matches |-> {}],
     [id |-> "payment-request", name |-> "Payment Request API", type |-> "web-api",
       evidence |-> "Found usage", needs |-> "PaymentRequest",
       matches |-> {}],
     [id |-> "web-share", name |-> "Web Share API", type |-> "web-api",
       evidence |-> "Found navigator.share usage", needs |-> "navigator.share",
       matches |-> {}],
     [id |-> "clipboard-api", name |-> "Clipboard API", type |-> "web-api",
       evidence |-> "Found clipboard usage", needs |-> "navigator.clipboard",
       matches |-> {}],
     [id |-> "geolocation", name |-> "Geolocation API", type |-> "web-api",
       evidence |-> "Found geolocation usage", needs |-> "navigator.geolocation",
       matches |-> {}] >>

\* One list of tests against a text: every test whose global exists and
\* whose expression matches the text calls addFeature, in order.
RECURSIVE RunChecks(_, _, _, _)
RunChecks(df, checks, text, globals) ==
  IF checks = <<>> THEN df
  ELSE LET c == Head(checks)
           hit == (c.needs = "" \/ c.needs \in globals) /\ c.matches \cap text # {}
       IN RunChecks(IF hit THEN addFeature(df, c.id, c.name, c.type, c.evidence) ELSE df,
                    Tail(checks), text, globals)

\* getAllCSSText(): the rules of the accessible style sheets and the inline
\* style declarations.
getAllCSSText(els) ==
  UNION {els[i].text : i \in {j \in DOMAIN els : els[j].tag = "style"}}
    \cup UNION {els[i].inline : i \in DOMAIN els}

\* getAllScriptText(): the text of script:not([src]).
getAllScriptText(els) ==
  UNION {els[i].text : i \in {j \in DOMAIN els : els[j].tag = "script" /\ els[j].attr # "src"}}

SampleCap == 50

\* The body of the sampling loop for one sampled element.
SampleElement(df, e) ==
  LET evidence == "Active on " \o e.tag
      d1 == IF e.display = "grid" \/ e.display = "inline-grid"
            THEN addFeature(df, "css-grid", "CSS Grid Layout", "css", evidence) ELSE df
      d2 == IF e.display = "flex" \/ e.display = "inline-flex"
            THEN addFeature(d1, "flexbox", "CSS Flexible Box Layout", "css", evidence)
            ELSE d1
      d3 == IF e.transform # "" /\ e.transform # "none"
            THEN addFeature(d2, "css-transforms", "CSS Transforms", "css", evidence) ELSE d2
  IN IF e.filter # "" /\ e.filter # "none"
     THEN addFeature(d3, "css-filters", "CSS Filters", "css", evidence) ELSE d3

\* The detected sets the loop can leave after k more iterations, each of
\* which samples any element (Math.random, with replacement).
RECURSIVE SampleLoop(_, _, _)
SampleLoop(dfs, els, k) ==
  IF k = 0 THEN dfs
  ELSE SampleLoop({SampleElement(df, els[i]) : df \in dfs, i \in DOMAIN els}, els, k - 1)

\* analyzeComputedStyles(): the detected sets it can leave.
analyzeComputedStyles(df, els) == SampleLoop({df}, els, Min(Len(els), SampleCap))

\* detectESModules()
detectESModules(df, els) ==
  LET moduleScripts == {i \in DOMAIN els : els[i].tag = "script" /\ els[i].attr = "type=module"}
      d1 == IF Cardinality(moduleScripts) > 0
            THEN addFeature(df, "es-modules", "ES Modules", "javascript",
                            "Found " \o Decimal(Cardinality(moduleScripts))
                              \o " module script(s)")
            ELSE df
  IN IF DynamicImport \in getAllScriptText(els)
     THEN addFeature(d1, "dynamic-import", "Dynamic Import", "javascript",
                     "Found import() usage")
     ELSE d1

\* detectJavaScriptFeatures()
detectJavaScriptFeatures(df, els, globals) ==
  LET scripts == getAllScriptText(els)
      d1 == RunChecks(df, detectPromiseFeaturesChecks, scripts, globals)
      d2 == RunChecks(d1, detectModernSyntaxChecks, scripts, globals)
      d3 == RunChecks(d2, detectWebAPIsChecks, scripts, globals)
  IN detectESModules(d3, els)

ModernInputTypes ==
  {"type=date", "type=color", "type=range", "type=time", "type=datetime-local"}

CountTag(els, tag) == Cardinality({i \in DOMAIN els : els[i].tag = tag})

\* detectHTMLFeatures(): [features, threw].  customElements.getNames is not
\* a function of any registry, so a non-null customElements makes the call
\* throw before any markup test has run.
detectHTMLFeatures(df, els, globals) ==
  IF "customElements" \in globals
  THEN [features |-> df, threw |-> TRUE]
  ELSE
    LET modernInputs == Cardinality({i \in DOMAIN els :
                          els[i].tag = "input" /\ els[i].attr \in ModernInputTypes})
        d1 == IF \E i \in DOMAIN els : els[i].attr = "shadowroot"
              THEN addFeature(df, "shadow-dom", "Shadow DOM", "html",
                              "Found shadow DOM usage")
              ELSE df
        d2 == IF modernInputs > 0
              THEN addFeature(d1, "html5-forms", "HTML5 Form Controls", "html",
                              "Found " \o Decimal(modernInputs) \o " modern input types")
              ELSE d1
        d3 == IF CountTag(els, "details") > 0
              THEN addFeature(d2, "details-summary", "Details/Summary Elements", "html",
                              "Found " \o Decimal(CountTag(els, "details"))
                                \o " details elements")
              ELSE d2
        d4 == IF CountTag(els, "picture") > 0
              THEN addFeature(d3, "picture-element", "Picture Element", "html",
                              "Found " \o Decimal(CountTag(els, "picture"))
                                \o " picture elements")
              ELSE d3
        d5 == IF CountTag(els, "dialog") > 0
              THEN addFeature(d4, "dialog-element", "Dialog Element", "html",
                              "Found " \o Decimal(CountTag(els, "dialog"))
                                \o " dialog elements")
              ELSE d4
    IN [features |-> d5, threw |-> FALSE]

\* detectCSSFeatures() from the cleared set: the detected sets it can leave.
detectCSSFeatures(els, globals) ==
  LET cssText == getAllCSSText(els)
      sheets == RunChecks(<<>>, analyzeStyleSheetsChecks, cssText, globals)
  IN {RunChecks(RunChecks(df, detectCSSCustomPropertiesChecks, cssText, globals),
                detectModernCSSFeaturesChecks, cssText, globals) :
        df \in analyzeComputedStyles(sheets, els)}

\* analyzeDocument() up to the report: the [features, threw] it can end with.
analyzeDocument(els, globals) ==
  {detectHTMLFeatures(detectJavaScriptFeatures(df, els, globals), els, globals) :
     df \in detectCSSFeatures(els, globals)}

Ids(df) == {df[i].id : i \in DOMAIN df}

(***************************************************************************)
(* Page Scanner: handlers.                                                 *)
(***************************************************************************)
DebounceMs == 1000
TickMs == 500
MaxTime == 1500
MaxInserts == 2
MaxForced == 1

\* A broken clearTimeout that cancels nothing.
clearTimeoutNoop(ts, id) == ts

\* clearTimeout(id)
clearTimeout(ts, id) == {t \in ts : t.id # id}

\* sendResultsToBackground(): one FEATURES_DETECTED message with the detected
\* set as it stands.  Nothing is awaited and nothing is sent again.
sendResultsToBackground(df) ==
  /\ sentCount' = sentCount + 1
  /\ lastSent' = <<df>>

\* analyzeDocument() as run by a handler, with outcome r: the pass replaces
\* the detected set and, unless the markup tests threw, ends in
\* sendResultsToBackground().
RunPass(r) ==
  /\ detectedFeatures' = r.features
  /\ passes' = passes + 1
  /\ docChanged' = FALSE
  /\ IF r.threw
     THEN UNCHANGED <<sentCount, lastSent>>
     ELSE sendResultsToBackground(r.features)

RunAnalysis == \E r \in analyzeDocument(elements, env) : RunPass(r)

\* The page a Scanner is attached to: a style sheet, an inline script, a
\* grid container declared in the sheet, an image blurred by a cross-origin
\* style sheet, and a <details> element.
PageStyled ==
  << Html, HeadEl,
     Elem(4, "style", "none", "none", "none", {}, {GridDecl, CustomPropDecl, VarUseDecl}, ""),
     Elem(5, "script", "none", "none", "none", {}, {FetchCall, OptionalChain}, ""),
     BodyEl,
     Elem(6, "img", "inline", "none", Blurred, {}, {}, ""),
     Elem(7, "details", "block", "none", "none", {}, {}, "") >>
Pages == {PageStyled}

\* The nodes a page script may insert under <body>.
InsertableNodes ==
  { Elem(0, "style", "none", "none", "none", {}, {FlexDecl}, ""),
    Elem(0, "div", "block", "none", "none", {CustomPropDecl}, {}, ""),
    Elem(0, "span", "inline", "none", "none", {}, {}, "") }

\* The test of the MutationObserver callback on an added node.
Qualifies(node) == node.tag = "style" \/ node.tag = "script" \/ node.inline # {}

InitScanner ==
  /\ detectedFeatures = <<>>
  /\ calls = <<>>
  /\ now = 0
  /\ session = <<>>
  /\ CoordIdle
  /\ restyles = 0
  /\ hlLog = <<>>
  /\ hlMatched = {}
  /\ elements \in Pages
  /\ env \in Environments
  /\ scanner = "absent"
  /\ timers = {}
  /\ reanalyzeTimeout = 0
  /\ timerSeq = 0
  /\ passes = 0
  /\ sentCount = 0
  /\ lastSent = <<>>
  /\ lastResponse = <<>>
  /\ docChanged = FALSE
  /\ lastQualifying = -1
  /\ burstRuns = 0
  /\ lastRunAt = -1
  /\ inserts = 0
  /\ forced = 0

\* new BaselineFeatureDetector(): init() runs the first pass, then sets up
\* the observer and the message listener.  A pass that throws leaves init()
\* and the constructor through the exception: no observer, no listener, and
\* `detector` stays undefined.
ScannerInit ==
  /\ scanner = "absent"
  /\ \E r \in analyzeDocument(elements, env) :
       /\ RunPass(r)
       /\ scanner' = IF r.threw THEN "failed" ELSE "attached"
  /\ UNCHANGED <<calls, docVars, hlVars, env, timers, reanalyzeTimeout, timerSeq,
                 lastResponse, lastQualifying, burstRuns, lastRunAt, inserts, forced,
                 coordVars, popupVars, now, session>>

\* A page script inserts a node; the MutationObserver callback runs at the
\* end of the same task.
PageInsert ==
  /\ scanner # "absent"
  /\ inserts < MaxInserts
  /\ inserts' = inserts + 1
  /\ docChanged' = TRUE
  /\ \E node \in InsertableNodes :
       /\ elements' = Append(elements, [node EXCEPT !.eid = Len(elements) + 1])
       /\ IF scanner = "attached" /\ Qualifies(node)
          THEN /\ timers' = clearTimeout(timers, reanalyzeTimeout)
                              \cup {[id |-> timerSeq + 1, due |-> now + DebounceMs]}
               /\ reanalyzeTimeout' = timerSeq + 1
               /\ timerSeq' = timerSeq + 1
               /\ lastQualifying' = now
               /\ burstRuns' = IF lastQualifying >= 0 /\ now - lastQualifying < DebounceMs
                               THEN burstRuns ELSE 0
          ELSE UNCHANGED <<timers, reanalyzeTimeout, timerSeq, lastQualifying, burstRuns>>
  /\ UNCHANGED <<detectedFeatures, calls, restyles, hlVars, env, scanner, passes,
                 sentCount, lastSent, lastResponse, lastRunAt, forced, coordVars, popupVars, now,
                 session>>

\* The debounce timer fires: the callback runs analyzeDocument().
TimerFire ==
  /\ \E t \in timers :
       /\ t.due <= now
       /\ timers' = timers \ {t}
  /\ RunAnalysis
  /\ burstRuns' = burstRuns + 1
  /\ lastRunAt' = now
  /\ UNCHANGED <<calls, docVars, hlVars, env, scanner, reanalyzeTimeout, timerSeq,
                 lastResponse, lastQualifying, inserts, forced, coordVars, popupVars, session, now>>

\* Time passes, up to the next instant a timer is due.
Tick ==
  /\ now < MaxTime
  /\ \A t \in timers : t.due > now
  /\ LET target == now + TickMs
         early == {t.due : t \in {u \in timers : u.due < target}}
     IN now' = IF early = {} THEN target
               ELSE CHOOSE d \in early : \A e \in early : d <= e
  /\ UNCHANGED <<scannerVars, coordVars, popupVars, session>>

\* A response that carries only the entries of the style pass.
ResponseFeaturesCssOnly(df) == SelectSeq(df, LAMBDA f : f.type = "css")

\* Array.from(this.detectedFeatures) in the response.
ResponseFeatures(df) == df

\* handleMessage, case 'GET_DETECTED_FEATURES'.
OnGetDetectedFeatures ==
  /\ scanner \in {"attached", "detached"}
  /\ lastResponse' = <<[features |-> ResponseFeatures(detectedFeatures),
                        afterPass |-> passes]>>
  /\ UNCHANGED <<detectedFeatures, calls, docVars, hlVars, env, scanner, timers,
                 reanalyzeTimeout, timerSeq, passes, sentCount, lastSent, docChanged,
                 lastQualifying, burstRuns, lastRunAt, inserts, forced, coordVars, popupVars, now,
                 session>>

\* handleMessage, case 'REANALYZE_PAGE'.
OnReanalyzePage ==
  /\ scanner \in {"attached", "detached"}
  /\ forced < MaxForced
  /\ forced' = forced + 1
  /\ RunAnalysis
  /\ UNCHANGED <<calls, docVars, hlVars, env, scanner, timers, reanalyzeTimeout,
                 timerSeq, lastResponse, lastQualifying, burstRuns, lastRunAt, inserts,
                 coordVars, popupVars, now, session>>

\* beforeunload: cleanup() disconnects the observer and cancels the timer.
Cleanup ==
  /\ scanner = "attached"
  /\ scanner' = "detached"
  /\ timers' = clearTimeout(timers, reanalyzeTimeout)
  /\ UNCHANGED <<detectedFeatures, calls, docVars, hlVars, env, reanalyzeTimeout,
                 timerSeq, passes, sentCount, lastSent, lastResponse, docChanged,
                 lastQualifying, burstRuns, lastRunAt, inserts, forced, coordVars, popupVars, now,
                 session>>

NextScanner ==
  \/ ScannerInit
  \/ PageInsert
  \/ TimerFire
  \/ Tick
  \/ OnGetDetectedFeatures
  \/ OnReanalyzePage
  \/ Cleanup

SpecScanner == InitScanner /\ [][NextScanner]_vars

\* C6 as stated: a pass over a document that did not change since the
\* previous pass leaves the same set of ids as the previous pass.
C6_RerunSameIds ==
  [][(passes' = passes + 1 /\ passes >= 1 /\ ~docChanged) =>
       Ids(detectedFeatures') = Ids(detectedFeatures)]_vars

C11_OneReportPerPass ==
  [][passes' = passes + 1 =>
       /\ sentCount' = sentCount + 1
       /\ lastSent' = <<detectedFeatures'>>]_vars

\* C14: a GET_DETECTED_FEATURES response carries the detected set that the
\* most recently finished pass reported at its end; a Scanner answers only
\* after a pass has finished.
C14_ResponseIsLastPass ==
  [][lastResponse' # lastResponse =>
       /\ passes >= 1
       /\ sentCount = passes
       /\ lastSent # <<>>
       /\ lastResponse'[1].features = lastSent[1]
       /\ lastResponse'[1].afterPass = passes]_vars

\* A response sent after the debounce-timer pass that followed the insertion
\* of a style sheet: it carries the flexbox entry that pass found.
C14_Witness ==
  /\ lastResponse # <<>>
  /\ lastResponse[1].afterPass = 2
  /\ burstRuns = 1
  /\ passes = 2
  /\ "flexbox" \in Ids(lastResponse[1].features)
  /\ lastResponse[1].features = detectedFeatures

(***************************************************************************)
(* Texts of the Lookup Panel: a text is a sequence of tokens, a token      *)
(* being a blank, a colon or a word.                                       *)
(***************************************************************************)
RECURSIVE TrimStart(_)
TrimStart(t) == IF t # <<>> /\ Head(t) = " " THEN TrimStart(Tail(t)) ELSE t
RECURSIVE TrimEnd(_)
TrimEnd(t) == IF t # <<>> /\ t[Len(t)] = " " THEN TrimEnd(SubSeq(t, 1, Len(t) - 1)) ELSE t
\* String.prototype.trim()
Trim(t) == TrimEnd(TrimStart(t))

\* encodeURIComponent(): blanks and colons are escaped, words are kept.
encodeURIComponent(t) ==
  [i \in DOMAIN t |-> CASE t[i] = " " -> "%20" [] t[i] = ":" -> "%3A" [] OTHER -> t[i]]

DefaultQuery == <<"baseline_status", ":", "newly">>
\* `name:${query} OR id:${query}`
NameOrId(query) == <<"name", ":">> \o query \o <<" ", "OR", " ", "id", ":">> \o query
CatalogUrl(query) == <<"https://api.webstatus.dev/v1/features?q=">> \o encodeURIComponent(query)

(***************************************************************************)
(* Context menu (Coordinator).                                             *)
(***************************************************************************)
\* How many times the user acts on the extension (context-menu clicks, panel
\* opens and searches typed) in one behaviour.
MaxUserActions == 3
UserActions == clicks + opens + userSearches
Selections == {<<" ", "grid", " ">>, <<"flex">>, <<" ">>}

\* contextMenus.onClicked listener, for the item 'checkBaseline'.
ContextMenuClick ==
  /\ UserActions < MaxUserActions
  /\ clicks' = clicks + 1
  /\ \E selectionText \in Selections :
       IF selectionText # <<>>
       THEN coordOps' = Append(coordOps, [op |-> "set", key |-> "pendingSearch",
                                          value |-> Trim(selectionText)])
       ELSE UNCHANGED coordOps
  /\ UNCHANGED <<tabOpen, reports, removals, badgeText, badgeColor, lastReport,
                 reportsSent, scannerVars, panel, searchInput, viewVars, handled, detected,
                 requests, reqSeq, popupOps, getResult, loadPc, issued, pendingAtOpen,
                 opens, userSearches, pendingSearches, now, session>>

(***************************************************************************)
(* Lookup Panel (popup).                                                   *)
(***************************************************************************)
CardLimit == 8
DetectedShown == 3

\* What the user may type into the search field.
Typed == {<<"subgrid">>, <<" ">>}

\* How a catalog request ends: fetch() rejects, the status is not ok, the
\* body does not parse, or the body carries n catalog features.
MaxResults == 12
ResultCounts == {0, 3, MaxResults}
CatalogData(n) == [i \in 1..n |-> [feature_id |-> i]]
Failures == {[fetched |-> FALSE, ok |-> FALSE, valid |-> FALSE, data |-> <<>>],
             [fetched |-> TRUE, ok |-> FALSE, valid |-> FALSE, data |-> <<>>],
             [fetched |-> TRUE, ok |-> TRUE, valid |-> FALSE, data |-> <<>>]}
Responses == Failures \cup
             {[fetched |-> TRUE, ok |-> TRUE, valid |-> TRUE,
               data |-> CatalogData(n)] : n \in ResultCounts}

\* What comes back from the active tab: no content script (lastError), or
\* the Scanner's feature list.
ScannerReplies ==
  { [lastError |-> TRUE, features |-> <<>>],
    [lastError |-> FALSE, features |-> <<>>],
    [lastError |-> FALSE,
     features |-> <<[id |-> "css-grid", name |-> "CSS Grid Layout"],
                    [id |-> "flexbox", name |-> "CSS Flexible Box Layout"],
                    [id |-> "fetch", name |-> ""],
                    [id |-> "css-filters", name |-> "CSS Filters"]>>] }

\* A broken showLoading that leaves the empty-state message in place.
showLoadingKeepsNoResults(v) ==
  [v EXCEPT !.loadingState = "block", !.results = [@ EXCEPT !.display = "none"]]

\* The three views as one record, for the view helpers below.
Views == [loadingState |-> loadingState, results |-> results, noResults |-> noResults]

\* showLoading()
showLoading(v) ==
  [v EXCEPT !.loadingState = "block", !.results = [@ EXCEPT !.display = "none"],
            !.noResults = "none"]

\* hideLoading()
hideLoading(v) == [v EXCEPT !.loadingState = "none"]

\* showNoResults()
showNoResults(v) ==
  [v EXCEPT !.results = [@ EXCEPT !.display = "none"], !.noResults = "block"]

\* showError(message)
showError(v, request) ==
  [v EXCEPT !.results = [display |-> "block", kind |-> "error", cards |-> 0,
                         footer |-> "", request |-> request],
            !.noResults = "none"]

\* A displayResults that renders every feature it is given.
displayResultsShowsAll(v, features, request) ==
  IF Len(features) = 0
  THEN showNoResults(v)
  ELSE [v EXCEPT !.results = [display |-> "block", kind |-> "cards",
                              cards |-> Len(features), footer |-> "",
                              request |-> request],
                 !.noResults = "none"]

\* displayResults(features, isUserSearch): one card per feature of the first
\* CardLimit, and the "Showing X of Y results" line when there are more.
displayResults(v, features, request) ==
  IF Len(features) = 0
  THEN showNoResults(v)
  ELSE LET limitedFeatures == SubSeq(features, 1, Min(Len(features), CardLimit))
       IN [v EXCEPT !.results = [display |-> "block", kind |-> "cards",
                                 cards |-> Len(limitedFeatures),
                                 footer |-> IF Len(features) > CardLimit
                                            THEN "Showing " \o Decimal(Len(limitedFeatures))
                                                 \o " of " \o Decimal(Len(features))
                                                 \o " results"
                                            ELSE "",
                                 request |-> request],
                    !.noResults = "none"]

SetViews(v) ==
  /\ loadingState' = v.loadingState
  /\ results' = v.results
  /\ noResults' = v.noResults

\* searchFeatures(query, isUserSearch) up to its first await: the loading
\* view is shown and the request leaves.
StartSearch(query, isUserSearch, origin) ==
  /\ SetViews(showLoading(Views))
  /\ requests' = requests \cup {[id |-> reqSeq + 1, url |-> CatalogUrl(query),
                                 query |-> query, user |-> isUserSearch]}
  /\ reqSeq' = reqSeq + 1
  /\ issued' = Append(issued, origin)
  /\ UNCHANGED handled

\* handleSearch() with the field holding `text`.
HandleSearch(text, origin) ==
  IF Trim(text) # <<>>
  THEN StartSearch(NameOrId(Trim(text)), TRUE, origin)
  ELSE UNCHANGED <<viewVars, handled, requests, reqSeq, issued>>

PendingValue == IF "pendingSearch" \in DOMAIN session THEN <<session["pendingSearch"]>> ELSE <<>>

\* The user opens the panel: new BaselinePopup() runs init(), which starts
\* checkPendingSearch() (storage.get issued), loadDetectedFeatures()
\* (tabs.query issued) and the default search (request issued).
PanelOpen ==
  /\ panel = "closed"
  /\ UserActions < MaxUserActions
  /\ opens' = opens + 1
  /\ panel' = "open"
  /\ searchInput' = <<>>
  /\ detected' = [NoDetected EXCEPT !.display = "initial"]
  /\ popupOps' = Append(popupOps, [op |-> "get", key |-> "pendingSearch"])
  /\ getResult' = <<>>
  /\ loadPc' = "query"
  /\ pendingAtOpen' = PendingValue
  /\ StartSearch(DefaultQuery, FALSE, "default")
  /\ UNCHANGED <<userSearches, clicks, pendingSearches, scannerVars, coordVars, now,
                 session>>

\* The storage service applies the panel's next call; the result of a get
\* travels back to the panel.
PopupStorageApply ==
  /\ popupOps # <<>>
  /\ popupOps' = Tail(popupOps)
  /\ IF Head(popupOps).op = "get"
     THEN /\ getResult' = <<[found |-> "pendingSearch" \in DOMAIN session,
                             value |-> IF "pendingSearch" \in DOMAIN session
                                       THEN session["pendingSearch"] ELSE <<>>]>>
          /\ UNCHANGED session
     ELSE /\ session' = ApplyOp(session, Head(popupOps))
          /\ UNCHANGED getResult
  /\ UNCHANGED <<panel, searchInput, viewVars, handled, detected, requests, reqSeq, loadPc,
                 issued, pendingAtOpen, pendingSearches, opens, userSearches, clicks,
                 scannerVars, coordVars, now>>

\* A checkPendingSearch continuation that forgets to clear the key.
OnPendingReadKeepsKey ==
  /\ panel = "open"
  /\ getResult # <<>>
  /\ getResult' = <<>>
  /\ IF getResult[1].found /\ getResult[1].value # <<>>
     THEN /\ searchInput' = getResult[1].value
          /\ HandleSearch(getResult[1].value, "pending")
          /\ pendingSearches' = pendingSearches + 1
          /\ UNCHANGED popupOps
     ELSE UNCHANGED <<searchInput, viewVars, handled, requests, reqSeq, issued, popupOps,
                      pendingSearches>>
  /\ UNCHANGED <<panel, detected, loadPc, pendingAtOpen, opens, userSearches, clicks,
                 scannerVars, coordVars, now, session>>

\* checkPendingSearch() after its await: a value found goes into the search
\* field, is searched, and the key is removed.
OnPendingRead ==
  /\ panel = "open"
  /\ getResult # <<>>
  /\ getResult' = <<>>
  /\ IF getResult[1].found /\ getResult[1].value # <<>>
     THEN /\ searchInput' = getResult[1].value
          /\ HandleSearch(getResult[1].value, "pending")
          /\ pendingSearches' = pendingSearches + 1
          /\ popupOps' = Append(popupOps, [op |-> "remove", key |-> "pendingSearch",
                                            read |-> getResult[1].value])
     ELSE UNCHANGED <<searchInput, viewVars, handled, requests, reqSeq, issued, popupOps,
                      pendingSearches>>
  /\ UNCHANGED <<panel, detected, loadPc, pendingAtOpen, opens, userSearches, clicks,
                 scannerVars, coordVars, now, session>>

\* loadDetectedFeatures() after tabs.query: GET_DETECTED_FEATURES is sent to
\* the active tab.
OnTabsQueried ==
  /\ panel = "open"
  /\ loadPc = "query"
  /\ loadPc' = "message"
  /\ issued' = Append(issued, "scanner")
  /\ UNCHANGED <<panel, searchInput, viewVars, handled, detected, requests, reqSeq, popupOps,
                 getResult, pendingAtOpen, pendingSearches, opens, userSearches, clicks,
                 scannerVars, coordVars, now, session>>

\* [...new Map(features.map(f => [f.id, f])).values()]: one entry per id, in
\* the order the ids first appear, each the last feature with that id.
UniqueFeatures(features) ==
  LET firsts == {i \in DOMAIN features : \A j \in 1..(i - 1) : features[j].id # features[i].id}
      LastWith(id) == CHOOSE i \in DOMAIN features :
                        /\ features[i].id = id
                        /\ \A j \in DOMAIN features : features[j].id = id => j <= i
      RECURSIVE Build(_)
      Build(i) == IF i > Len(features) THEN <<>>
                  ELSE IF i \in firsts
                       THEN <<features[LastWith(features[i].id)]>> \o Build(i + 1)
                       ELSE Build(i + 1)
  IN Build(1)

\* displayDetectedFeatures(features)
displayDetectedFeatures(features) ==
  LET uniqueFeatures == UniqueFeatures(features)
      shown == SubSeq(uniqueFeatures, 1, Min(Len(uniqueFeatures), DetectedShown))
  IN [display |-> "block", count |-> Len(uniqueFeatures),
      names |-> [i \in DOMAIN shown |->
                   IF shown[i].name # "" THEN shown[i].name ELSE shown[i].id],
      more |-> IF Len(uniqueFeatures) > DetectedShown
               THEN Len(uniqueFeatures) - DetectedShown ELSE 0]

\* The sendMessage callback of loadDetectedFeatures().
OnScannerResponse ==
  /\ panel = "open"
  /\ loadPc = "message"
  /\ loadPc' = "done"
  /\ \E response \in ScannerReplies :
       detected' = IF ~response.lastError /\ Len(response.features) > 0
                   THEN displayDetectedFeatures(response.features)
                   ELSE [detected EXCEPT !.display = "none"]
  /\ UNCHANGED <<panel, searchInput, viewVars, handled, requests, reqSeq, popupOps, getResult,
                 issued, pendingAtOpen, pendingSearches, opens, userSearches, clicks,
                 scannerVars, coordVars, now, session>>

\* The user types a text and presses Enter or the search button.
UserSearch ==
  /\ panel = "open"
  /\ UserActions < MaxUserActions
  /\ userSearches' = userSearches + 1
  /\ \E text \in Typed :
       /\ searchInput' = text
       /\ HandleSearch(text, "user")
  /\ UNCHANGED <<panel, detected, popupOps, getResult, loadPc, pendingAtOpen,
                 pendingSearches, opens, clicks, scannerVars, coordVars, now, session>>

\* A searchFeatures continuation that retries a failed request.
OnResponseRetries ==
  /\ panel = "open"
  /\ \E r \in requests, response \in Responses :
       /\ handled' = <<[request |-> r.id,
                        failed |-> ~(response.fetched /\ response.ok /\ response.valid)]>>
       /\ IF response.fetched /\ response.ok /\ response.valid
          THEN /\ requests' = requests \ {r}
               /\ SetViews(hideLoading(displayResults(Views, response.data, r.id)))
          ELSE /\ requests' = requests
               /\ SetViews(hideLoading(showError(Views, r.id)))
  /\ UNCHANGED <<panel, searchInput, detected, reqSeq, popupOps, getResult, loadPc,
                 issued, pendingAtOpen, pendingSearches, opens, userSearches, clicks,
                 scannerVars, coordVars, now, session>>

\* searchFeatures() from `await fetch(...)` to the end of its finally block:
\* a rejected fetch, a non-ok status and a body that does not parse all land
\* in the catch block; hideLoading() runs last in every case.
OnResponse ==
  /\ panel = "open"
  /\ \E r \in requests, response \in Responses :
       /\ requests' = requests \ {r}
       /\ handled' = <<[request |-> r.id,
                        failed |-> ~(response.fetched /\ response.ok /\ response.valid)]>>
       /\ IF response.fetched /\ response.ok /\ response.valid
          THEN SetViews(hideLoading(displayResults(Views, response.data, r.id)))
          ELSE SetViews(hideLoading(showError(Views, r.id)))
  /\ UNCHANGED <<panel, searchInput, detected, reqSeq, popupOps, getResult, loadPc,
                 issued, pendingAtOpen, pendingSearches, opens, userSearches, clicks,
                 scannerVars, coordVars, now, session>>

\* The user closes the panel: its document and its pending continuations
\* are gone; a storage call already issued still takes effect.
PanelClose ==
  /\ panel = "open"
  /\ panel' = "closed"
  /\ searchInput' = <<>>
  /\ loadingState' = "none"
  /\ results' = Hidden
  /\ noResults' = "none"
  /\ detected' = NoDetected
  /\ requests' = {}
  /\ reqSeq' = 0
  /\ popupOps' = SelectSeq(popupOps, LAMBDA op : op.op # "get")
  /\ getResult' = <<>>
  /\ loadPc' = "idle"
  /\ issued' = <<>>
  /\ pendingAtOpen' = <<>>
  /\ handled' = <<>>
  /\ UNCHANGED <<pendingSearches, opens, userSearches, clicks, scannerVars, coordVars,
                 now, session>>

InitPopup ==
  /\ detectedFeatures = <<>>
  /\ calls = <<>>
  /\ now = 0
  /\ session = <<>>
  /\ CoordIdle
  /\ PageBlank

NextPopup ==
  \/ ContextMenuClick
  \/ CoordStorageApply
  \/ PanelOpen
  \/ PopupStorageApply
  \/ OnPendingRead
  \/ OnTabsQueried
  \/ OnScannerResponse
  \/ UserSearch
  \/ OnResponse
  \/ PanelClose

SpecPopup == InitPopup /\ [][NextPopup]_vars

Visible == {x \in {"loading", "results", "empty"} :
              \/ x = "loading" /\ loadingState = "block"
              \/ x = "results" /\ results.display = "block"
              \/ x = "empty" /\ noResults = "block"}

\* C7: while the panel is open (its first search starts as it opens),
\* exactly one of the loading indicator, the results area and the
\* empty-state message is visible between handlers.
C7_OneViewVisible == panel = "open" => Cardinality(Visible) = 1

\* Two searches overlapped; one has ended in the empty state while the
\* other is still in flight.
C7_Witness ==
  /\ panel = "open"
  /\ reqSeq >= 2
  /\ requests # {}
  /\ Visible = {"empty"}

\* C13: for a response with n results displayResults renders min(n, 8)
\* cards, with the line "Showing 8 of n results" exactly when n > 8; for
\* n = 0 it shows the empty-state message and hides the results area, whose
\* content it leaves alone.  Stated of displayResults applied to the views of
\* every reachable state.
C13_CardsAndFooter ==
  \A n \in 0..MaxResults :
    LET v == displayResults(Views, CatalogData(n), 0)
    IN IF n = 0
       THEN /\ v.noResults = "block"
            /\ v.results = [results EXCEPT !.display = "none"]
       ELSE /\ v.noResults = "none"
            /\ v.results.display = "block"
            /\ v.results.kind = "cards"
            /\ v.results.cards = (IF n <= 8 THEN n ELSE 8)
            /\ v.results.footer = (IF n > 8
                                   THEN "Showing 8 of " \o ToString(n) \o " results"
                                   ELSE "")

\* A response with 12 results has been displayed: 8 cards and the footer.
C13_Witness ==
  /\ panel = "open"
  /\ Visible = {"results"}
  /\ results.kind = "cards"
  /\ results.cards = 8
  /\ results.footer = "Showing 8 of 12 results"

FailureHandled == handled' # handled /\ handled' # <<>> /\ handled'[1].failed
SearchTyped == userSearches' = userSearches + 1 /\ Trim(searchInput') # <<>>

\* C12: when the handler of a failed request has finished, the results area
\* is displayed and holds the error message of that request and no cards, the
\* loading indicator and the empty-state message are hidden, the request is
\* gone and no request has been issued in its place; and in every state of
\* the open panel, that one included, a search the user types is taken up:
\* it issues one request and shows the loading indicator.
C12_FailureShowsError ==
  [][/\ FailureHandled =>
          /\ results' = [display |-> "block", kind |-> "error", cards |-> 0,
                         footer |-> "", request |-> handled'[1].request]
          /\ loadingState' = "none"
          /\ noResults' = "none"
          /\ \E r \in requests :
               /\ r.id = handled'[1].request
               /\ requests' = requests \ {r}
          /\ reqSeq' = reqSeq
          /\ issued' = issued
     /\ SearchTyped =>
          /\ Cardinality(requests' \ requests) = 1
          /\ requests \subseteq requests'
          /\ loadingState' = "block"]_vars

\* The default request failed and its error was shown; the user then typed
\* a search, which hid the error behind the loading indicator and is in
\* flight.
C12_Witness ==
  /\ panel = "open"
  /\ issued = <<"default", "user">>
  /\ handled = <<[request |-> 1, failed |-> TRUE]>>
  /\ \E r \in requests : requests = {r} /\ r.id = 2 /\ r.user
  /\ results = [display |-> "none", kind |-> "error", cards |-> 0, footer |-> "",
                request |-> 1]
  /\ Visible = {"loading"}

Consumes == pendingSearches' # pendingSearches /\ pendingSearches' # 0

\* C3: a pending value is consumed once. The step in which the panel takes
\* up a value v it read is the first such step since the last context-menu
\* write reached storage; it puts v in the search field, issues exactly one
\* catalog request, the one for v, and issues the removal of the key. So a
\* later panel open with no new write in between takes up nothing.
C3_ConsumedOnce ==
  [][Consumes =>
       /\ pendingSearches = 0
       /\ pendingSearches' = 1
       /\ getResult # <<>>
       /\ getResult[1].found
       /\ searchInput' = getResult[1].value
       /\ \E r \in requests' :
            /\ requests' \ requests = {r}
            /\ r.query = NameOrId(getResult[1].value)
            /\ r.url = CatalogUrl(NameOrId(getResult[1].value))
       /\ popupOps' = Append(popupOps, [op |-> "remove", key |-> "pendingSearch",
                                         read |-> getResult[1].value])]_vars

\* The value of one context-menu click was taken up by the first panel; a
\* second panel has been opened, has read the key and has found nothing.
C3_Witness ==
  /\ clicks = 1
  /\ opens = 2
  /\ panel = "open"
  /\ pendingSearches = 1
  /\ popupOps = <<>>
  /\ getResult = <<>>
  /\ issued = <<"default">>
  /\ "pendingSearch" \notin DOMAIN session

RECURSIVE IsPrefix(_, _)
IsPrefix(a, b) ==
  \/ a = <<>>
  \/ /\ b # <<>>
     /\ Head(a) = Head(b)
     /\ IsPrefix(Tail(a), Tail(b))

StartupIssued == SelectSeq(issued, LAMBDA x : x # "user")

\* C8: a panel opened with a pending value present issues the pending-search
\* request first, then queries the Scanner, and only then issues the
\* default request.
C8_StartupOrder ==
  (panel = "open" /\ pendingAtOpen # <<>> /\ pendingAtOpen[1] # <<>>) =>
    IsPrefix(StartupIssued, <<"pending", "scanner", "default">>)

\* C15 as stated: once every response of a set of overlapping searches has
\* been handled, what the panel shows is the outcome of the search issued
\* last; and the loading indicator is displayed while a request is in flight.
C15_LatestSearchShown ==
  panel = "open" =>
    /\ (requests = {} /\ handled # <<>>) => handled[1].request = reqSeq
    /\ requests # {} => loadingState = "block"

RemoveApplied ==
  /\ popupOps # <<>>
  /\ Head(popupOps).op = "remove"
  /\ popupOps' = Tail(popupOps)
  /\ panel' = panel

\* C16 as stated: the panel's removal of pendingSearch leaves in storage a
\* value other than the one the panel had read.
C16_RemovesOnlyValueRead ==
  [][(/\ RemoveApplied
      /\ "pendingSearch" \in DOMAIN session
      /\ session["pendingSearch"] # Head(popupOps).read) =>
       /\ "pendingSearch" \in DOMAIN session'
       /\ session'["pendingSearch"] = session["pendingSearch"]]_vars

(***************************************************************************)
(* SpecAddFeature: arbitrary addFeature calls on a fresh Scanner.          *)
(***************************************************************************)
MaxCalls == 3

CallIds == {"css-grid", "flexbox"}
CallNames == {"CSS Grid Layout", "Grid"}
CallTypes == {"css", "html"}
CallEvidence == {"Found in stylesheets", "Active on div"}

InitAddFeature ==
  /\ detectedFeatures = <<>>
  /\ calls = <<>>
  /\ now = 0
  /\ session = <<>>
  /\ CoordIdle
  /\ PageBlank

AddFeatureCall ==
  /\ Len(calls) < MaxCalls
  /\ \E id \in CallIds, name \in CallNames, type \in CallTypes, evidence \in CallEvidence :
       /\ detectedFeatures' = addFeature(detectedFeatures, id, name, type, evidence)
       /\ calls' = Append(calls, [id |-> id, name |-> name, type |-> type,
                                  evidence |-> evidence])
  /\ UNCHANGED <<docVars, hlVars, runVars, coordVars, popupVars, now, session>>

NextAddFeature == AddFeatureCall

SpecAddFeature == InitAddFeature /\ [][NextAddFeature]_vars

CallsWith(id) == {i \in DOMAIN calls : calls[i].id = id}
FirstCall(id) == CHOOSE i \in CallsWith(id) : \A j \in CallsWith(id) : i <= j
LastCall(id) == CHOOSE i \in CallsWith(id) : \A j \in CallsWith(id) : j <= i

\* C1: after any sequence of addFeature calls from the empty set, the set
\* holds exactly one entry per distinct id passed (and none for other ids);
\* its evidence is that of the last call with the id, its name and type
\* those of the first.
C1_OneEntryPerId ==
  /\ \A id \in CallIds :
       Cardinality({i \in DOMAIN detectedFeatures : detectedFeatures[i].id = id})
         = IF CallsWith(id) = {} THEN 0 ELSE 1
  /\ \A i \in DOMAIN detectedFeatures :
       LET f == detectedFeatures[i]
       IN /\ CallsWith(f.id) # {}
          /\ f.evidence = calls[LastCall(f.id)].evidence
          /\ f.name = calls[FirstCall(f.id)].name
          /\ f.type = calls[FirstCall(f.id)].type

\* An id passed twice with different name, type and evidence, and a second id.
C1_Witness ==
  /\ Len(calls) = 3
  /\ calls[1].id = "css-grid" /\ calls[2].id = "flexbox" /\ calls[3].id = "css-grid"
  /\ calls[1].evidence # calls[3].evidence
  /\ calls[1].name # calls[3].name
  /\ calls[1].type # calls[3].type
  /\ Len(detectedFeatures) = 2

====
